---- MODULE Spec2Model ----
(***************************************************************************)
(* Model of screenshotter.py: the commit-driven capture orchestration.     *)
(*                                                                         *)
(* Text is modelled in two ways.  A commit message is a sequence of        *)
(* tokens: the literal "[screenshot:" that SCREENSHOT_PATTERN starts with, *)
(* the characters "]", "," and " ", and letters.  Everything the program   *)
(* formats (names, prefixes, filenames, paths, error texts) is a string    *)
(* built with \o, as the f-strings of the source build it.  A commit id    *)
(* is a sequence of 40 hexadecimal characters, so that sha[:8] is a real   *)
(* truncation.                                                             *)
(***************************************************************************)
EXTENDS Integers, Sequences, FiniteSets, TLC

VARIABLES
    project_exists,   \* os.path.exists(args.project_path)
    history,          \* repo.iter_commits(): the commits, newest first
    only,             \* args.only as a set of names; {} is "not given"
    list_flag,        \* args.list
    config,           \* ScreenshotOrchestrator.config
    PLAYWRIGHT_AVAILABLE,
    GIT_AVAILABLE,
    PIL_AVAILABLE,
    hazards,          \* the calls of BrowserCapture.capture that can raise in this run
    pc,               \* position of main
    original_branch,  \* GitProjectManager.original_branch
    head,             \* what the working tree is checked out on
    browser,          \* BrowserCapture.playwright / browser / context set?
    server_process,   \* SymfonyServer.process is not None
    commit_groups,    \* the plan of run_from_git (specs are mutated in it)
    gi,               \* position of the loop over commit_groups
    si,               \* position of the loop over screenshots_to_take
    results,          \* ScreenshotOrchestrator.results
    printed,          \* the filename lines main prints under --list
    calls,            \* the calls made to the collaborators, in order
    ti,               \* position in teardown
    exc,              \* the exception propagating out of main, or None
    exit_code         \* the code main exited with, or -1 while running

vars == <<project_exists, history, only, list_flag, config, PLAYWRIGHT_AVAILABLE, GIT_AVAILABLE,
          PIL_AVAILABLE, hazards, pc, original_branch, head, browser, server_process, commit_groups,
          gi, si, ti, results, printed, calls, exc, exit_code>>

----------------------------------------------------------------------------
(* Bounds of the model *)

\* commits in the history of a run
MaxCommits == 2
\* commits in the history of a --list invocation
MaxListCommits == 3
\* tokens in the message of the single commit of a --list invocation
MaxMsgLen == 5
\* commits in the long history, where the index of a group needs three digits
MaxLongCommits == 100

----------------------------------------------------------------------------
(* Text helpers *)

None == "<None>"

TAG == "[screenshot:"

Tokens == {TAG, "]", ",", " ", "a", "b"}

\* the tokens of the messages that are enumerated exhaustively
ParseTokens == {TAG, "]", ",", " ", "a"}

\* "".join(tokens)
RECURSIVE Join(_)
Join(s) == IF s = <<>> THEN "" ELSE Head(s) \o Join(Tail(s))

\* str.strip() on a token sequence: drop the leading and trailing blanks
RECURSIVE LStrip(_)
LStrip(s) == IF s # <<>> /\ Head(s) = " " THEN LStrip(Tail(s)) ELSE s

RECURSIVE RStrip(_)
RStrip(s) == IF s # <<>> /\ s[Len(s)] = " " THEN RStrip(SubSeq(s, 1, Len(s) - 1)) ELSE s

Strip(s) == RStrip(LStrip(s))

\* str.split(","): the pieces between the commas, empty pieces kept
RECURSIVE SplitComma(_)
SplitComma(s) ==
    IF \E i \in 1..Len(s) : s[i] = ","
    THEN LET i == CHOOSE k \in 1..Len(s) : s[k] = "," /\ \A m \in 1..(k - 1) : s[m] # ","
         IN <<SubSeq(s, 1, i - 1)>> \o SplitComma(SubSeq(s, i + 1, Len(s)))
    ELSE <<s>>

HexDigits == <<"0", "1", "2", "3", "4", "5", "6", "7",
               "8", "9", "a", "b", "c", "d", "e", "f">>

\* the id of the n-th commit ever made (n = 1 is the oldest); the first two
\* digits tell n apart from every other n below 256
ShaOf(n) == [i \in 1..40 |-> HexDigits[((n * i + n \div 16) % 16) + 1]]

\* a bug: the commit id is recorded whole
Short_Whole(sha) == sha

\* sha[:8]
Short(sha) == SubSeq(sha, 1, IF Len(sha) < 8 THEN Len(sha) ELSE 8)

\* a bug: the files are not prefixed
CommitPrefix_None(index) == ""

\* f"{index:02d}_"
CommitPrefix(index) == (IF index < 10 THEN "0" ELSE "") \o ToString(index) \o "_"

----------------------------------------------------------------------------
(* ScreenshotSpec, CommitScreenshots *)

ScreenshotSpec(name, commit_sha, commit_message) ==
    [name            |-> name,
     commit_sha      |-> commit_sha,
     commit_message  |-> commit_message,
     url             |-> "/",
     output_path     |-> "screenshots/" \o name \o ".png",
     viewport_width  |-> 1280,
     viewport_height |-> 800,
     full_page       |-> FALSE,
     wait_for        |-> None,
     delay           |-> 1,
     is_error_page   |-> FALSE,
     show_title_bar  |-> FALSE,
     title_bar_style |-> "chrome"]

CommitScreenshots(commit_sha, commit_message, screenshots) ==
    [commit_sha     |-> commit_sha,
     commit_message |-> commit_message,
     screenshots    |-> screenshots,
     index          |-> 0]

----------------------------------------------------------------------------
(* GitProjectManager.get_screenshot_commits *)

\* SCREENSHOT_PATTERN.search(message): the position of the TAG of the leftmost
\* match of \[screenshot:([^\]]+)\], or 0 when nothing matches
CloseOf(msg, i) ==
    IF \E j \in (i + 1)..Len(msg) : msg[j] = "]"
    THEN CHOOSE j \in (i + 1)..Len(msg) :
            msg[j] = "]" /\ \A m \in (i + 1)..(j - 1) : msg[m] # "]"
    ELSE 0

\* a bug: the pattern does not ask for the closing delimiter
MatchesAt_NoClose(msg, i) == msg[i] = TAG

MatchesAt(msg, i) == msg[i] = TAG /\ CloseOf(msg, i) > i + 1

PatternSearch(msg) ==
    IF \E i \in 1..Len(msg) : MatchesAt(msg, i)
    THEN CHOOSE i \in 1..Len(msg) :
            MatchesAt(msg, i) /\ \A m \in 1..(i - 1) : ~MatchesAt(msg, m)
    ELSE 0

\* match.group(1)
MatchGroup1(msg) == SubSeq(msg, PatternSearch(msg) + 1, CloseOf(msg, PatternSearch(msg)) - 1)

\* a bug: the names are not stripped
ScreenshotNames_NoStrip(msg) ==
    LET pieces == SplitComma(MatchGroup1(msg))
    IN [k \in 1..Len(pieces) |-> Join(pieces[k])]

\* [name.strip() for name in screenshot_names_str.split(",")]
ScreenshotNames(msg) ==
    LET pieces == SplitComma(MatchGroup1(msg))
    IN [k \in 1..Len(pieces) |-> Join(Strip(pieces[k]))]

\* the specs of one matching commit
SpecsOf(commit) ==
    LET names == ScreenshotNames(commit.message)
    IN [k \in 1..Len(names) |-> ScreenshotSpec(names[k], commit.hexsha, commit.message)]

\* the loop over repo.iter_commits(): one CommitScreenshots per matching commit,
\* in the order of iteration
CollectCommits(commits) ==
    LET matching == SelectSeq(commits, LAMBDA commit : PatternSearch(commit.message) # 0)
    IN [k \in 1..Len(matching) |->
           CommitScreenshots(matching[k].hexsha, matching[k].message, SpecsOf(matching[k]))]

\* list.reverse()
Reverse(s) == [k \in 1..Len(s) |-> s[Len(s) + 1 - k]]

\* for index, commit_group in enumerate(..., start=1): commit_group.index = index
AssignIndex(groups) == [k \in 1..Len(groups) |-> [groups[k] EXCEPT !.index = k]]

\* a bug: the index is assigned before the reversal
get_screenshot_commits_IndexFirst(commits) == Reverse(AssignIndex(CollectCommits(commits)))

get_screenshot_commits(commits) == AssignIndex(Reverse(CollectCommits(commits)))

----------------------------------------------------------------------------
(* Inputs *)

\* all token sequences of length at most n
SeqsUpTo(S, n) == UNION {[1..k -> S] : k \in 0..n}

\* a history of the given messages, newest first; the k-th entry of a history
\* of n commits is the (n + 1 - k)-th commit ever made
HistoryOf(msgs) ==
    [k \in 1..Len(msgs) |-> [hexsha |-> ShaOf(Len(msgs) + 1 - k), message |-> msgs[k]]]

RunMessages ==
    { <<TAG, "a", "]">>,
      <<TAG, "a", ",", " ", "b", "]", " ", "b">>,
      <<"a", " ", "b">> }

ListMessages ==
    RunMessages \cup { <<TAG, "b", ",", "b", "]">>,
                       <<TAG, " ", "a", ",", " ", "b", " ", ",", "a", "]">>,
                       <<TAG, "a">> }

RunHistories == {HistoryOf(m) : m \in SeqsUpTo(RunMessages, MaxCommits)}

ListHistories ==
    {HistoryOf(m) : m \in SeqsUpTo(ListMessages, MaxListCommits)}
    \cup {HistoryOf(<<m>>) : m \in SeqsUpTo(ParseTokens, MaxMsgLen)}

\* the histories on which a missing library is tried: the constructor raises
\* before the history is read
ShortHistories == {HistoryOf(m) : m \in SeqsUpTo(RunMessages, 1)}

----------------------------------------------------------------------------
(* Configuration: a YAML mapping is a function from its keys to its values  *)

EmptyDict == <<>>

\* dict.get(key, default)
Get(d, key, default) == IF key \in DOMAIN d THEN d[key] ELSE default

\* no -c option: self.config = {}
NoConfig == [is_none |-> FALSE, dict |-> EmptyDict]

\* an empty YAML document: yaml.safe_load returns None
NoneConfig == [is_none |-> TRUE, dict |-> EmptyDict]

\* a document with all three sections; the values of `output` and `output_dir`
\* are kept as tokens because pathlib takes them apart
FullConfig ==
    [is_none |-> FALSE,
     dict |-> [output_dir  |-> <<"out">>,
               defaults    |-> [show_title_bar |-> TRUE],
               screenshots |-> [a |-> [output |-> <<"c", "/", "h", ".", "p">>,
                                        show_title_bar |-> FALSE]]]]

Configs == {NoConfig, NoneConfig, FullConfig}

\* the values a `defaults` section is tried with: one recognized key each
DefaultsSections ==
    << [url |-> "/x"], [viewport_width |-> 800], [viewport_height |-> 600],
       [full_page |-> TRUE], [wait_for |-> ".x"], [delay |-> 2],
       [show_title_bar |-> TRUE], [show_title_bar |-> FALSE],
       [title_bar_style |-> "safari"] >>

\* the custom output paths an entry is tried with; the empty one is
\* `output: ""`, the last six are not in the normal form of pathlib
OutputPaths ==
    << <<"c", "/", "h", ".", "p">>, <<"h", ".", "p">>, <<"c", "/", "h">>,
       <<"/", "h", ".", "p">>, <<"c", "/", "d", "/", "h", ".", "p", ".", "q">>,
       <<"c", ".", "d", "/", ".", "h">>, <<>>,
       <<".", "/", "h", ".", "p">>, <<"c", "/", "/", "h", ".", "p">>,
       <<"c", "/", ".", "/", "h", ".", "p">>, <<"c", "/">>, <<".">>,
       <<"c", ".", "h", "/">> >>

\* the values the entry of a capture is tried with: empty, or one key
NamedEntries ==
    << EmptyDict, [url |-> "/y"], [viewport_width |-> 1024], [viewport_height |-> 768],
       [full_page |-> TRUE], [full_page |-> FALSE], [wait_for |-> ".y"], [delay |-> 3],
       [show_title_bar |-> TRUE], [show_title_bar |-> FALSE],
       [title_bar_style |-> "minimal"] >>
    \o [i \in 1..Len(OutputPaths) |-> [output |-> OutputPaths[i]]]

\* the values a `screenshots` section is tried with: an entry for "b", or an
\* entry for another capture only
ScreenshotsSections ==
    [i \in 1..Len(NamedEntries) |-> [b |-> NamedEntries[i]]] \o << [a |-> [url |-> "/y"]] >>

\* the values `output_dir` is tried with: out, and three that are not in the
\* normal form of pathlib
OutputDirs ==
    << <<"out">>, <<"out", "/">>, <<".", "/", "out">>, <<"out", "/", "/", "x">> >>

\* a document made of the sections that are given; position 0 leaves the
\* section out
Document(o, d, n) ==
    [is_none |-> FALSE,
     dict |-> (IF o > 0 THEN "output_dir" :> OutputDirs[o] ELSE EmptyDict)
              @@ (IF d > 0 THEN "defaults" :> DefaultsSections[d] ELSE EmptyDict)
              @@ (IF n > 0 THEN "screenshots" :> ScreenshotsSections[n] ELSE EmptyDict)]

\* the documents on which the resolution of a spec is tried
OverlayConfigs ==
    {Document(o, d, n) : o \in 0..1, d \in 0..Len(DefaultsSections),
                         n \in 0..Len(ScreenshotsSections)}
    \cup {Document(o, 0, n) : o \in 2..Len(OutputDirs), n \in 0..Len(ScreenshotsSections)}

\* the documents on which the engine is tried: a selector to wait for and a
\* title bar, asked for or not
EngineConfigs ==
    {NoConfig,
     [is_none |-> FALSE, dict |-> [screenshots |-> [b |-> [wait_for |-> ".y"]]]],
     [is_none |-> FALSE, dict |-> [screenshots |-> [b |-> [show_title_bar |-> TRUE]]]],
     [is_none |-> FALSE,
      dict |-> [screenshots |-> [b |-> [wait_for |-> ".y", show_title_bar |-> TRUE]]]]}

\* self.config.get(...) raises AttributeError when the document was empty
ConfigRaises(cfg) == cfg.is_none

AttributeErrorText == "'NoneType' object has no attribute 'get'"

\* the first half of _apply_screenshot_config (lines 639-644): the keys of the
\* `defaults` section that the code reads
ApplyGlobalConfig(cfg, spec) ==
    LET global_config == Get(cfg.dict, "defaults", EmptyDict)
        s1 == IF "show_title_bar" \in DOMAIN global_config
              THEN [spec EXCEPT !.show_title_bar = global_config["show_title_bar"]]
              ELSE spec
        s2 == IF "title_bar_style" \in DOMAIN global_config
              THEN [s1 EXCEPT !.title_bar_style = global_config["title_bar_style"]]
              ELSE s1
    IN s2

\* the second half (lines 646-667): the keys of the entry of `screenshots`
\* named after the spec
ApplyNamedConfig(cfg, spec) ==
    LET screenshots_config == Get(cfg.dict, "screenshots", EmptyDict)
        c == screenshots_config[spec.name]
    IN IF spec.name \in DOMAIN screenshots_config
       THEN LET t1 == IF "url" \in DOMAIN c THEN [spec EXCEPT !.url = c["url"]] ELSE spec
                t2 == IF "viewport_width" \in DOMAIN c
                      THEN [t1 EXCEPT !.viewport_width = c["viewport_width"]] ELSE t1
                t3 == IF "viewport_height" \in DOMAIN c
                      THEN [t2 EXCEPT !.viewport_height = c["viewport_height"]] ELSE t2
                t4 == IF "full_page" \in DOMAIN c
                      THEN [t3 EXCEPT !.full_page = c["full_page"]] ELSE t3
                t5 == IF "wait_for" \in DOMAIN c
                      THEN [t4 EXCEPT !.wait_for = c["wait_for"]] ELSE t4
                t6 == IF "delay" \in DOMAIN c THEN [t5 EXCEPT !.delay = c["delay"]] ELSE t5
                t7 == IF "output" \in DOMAIN c
                      THEN [t6 EXCEPT !.output_path = Join(c["output"])] ELSE t6
                t8 == IF "show_title_bar" \in DOMAIN c
                      THEN [t7 EXCEPT !.show_title_bar = c["show_title_bar"]] ELSE t7
                t9 == IF "title_bar_style" \in DOMAIN c
                      THEN [t8 EXCEPT !.title_bar_style = c["title_bar_style"]] ELSE t8
            IN t9
       ELSE spec

\* a bug: the `defaults` section is applied after the named entry
_apply_screenshot_config_GlobalLast(cfg, spec) ==
    ApplyGlobalConfig(cfg, ApplyNamedConfig(cfg, spec))

\* ScreenshotOrchestrator._apply_screenshot_config: the spec after the call
_apply_screenshot_config(cfg, spec) == ApplyNamedConfig(cfg, ApplyGlobalConfig(cfg, spec))

\* pathlib on a path given as tokens: a token is one character, or a text
\* without "/" that is not "." (a file name, a directory name)

\* str.split("/"): the pieces between the slashes, empty pieces kept
RECURSIVE SplitSlash(_)
SplitSlash(p) ==
    IF \E i \in 1..Len(p) : p[i] = "/"
    THEN LET i == CHOOSE k \in 1..Len(p) : p[k] = "/" /\ \A m \in 1..(k - 1) : p[m] # "/"
         IN <<SubSeq(p, 1, i - 1)>> \o SplitSlash(SubSeq(p, i + 1, Len(p)))
    ELSE <<p>>

\* Path(p).root: "/" for an absolute path, "//" when it starts with exactly two
\* slashes, "" for a relative path
PathRoot(p) ==
    IF p = <<>> \/ p[1] # "/" THEN ""
    ELSE IF Len(p) >= 2 /\ p[2] = "/" /\ (Len(p) = 2 \/ p[3] # "/") THEN "//"
    ELSE "/"

\* the components pathlib keeps when it parses p: the empty ones (a doubled or
\* trailing slash) and the "." ones are dropped
PathParts(p) == SelectSeq(SplitSlash(p), LAMBDA c : c # <<>> /\ c # <<".">>)

\* str() of the path made of a root and components: "." when there is nothing
RECURSIVE JoinSlash(_)
JoinSlash(names) ==
    IF names = <<>> THEN ""
    ELSE IF Len(names) = 1 THEN names[1]
    ELSE names[1] \o "/" \o JoinSlash(Tail(names))

PathStr(root, names) == IF root = "" /\ names = <<>> THEN "." ELSE root \o JoinSlash(names)

\* str(Path(p))
StrPath(p) == PathStr(PathRoot(p), [k \in 1..Len(PathParts(p)) |-> Join(PathParts(p)[k])])

\* Path(p).name: the last component, empty when there is none
PathName(p) == IF PathParts(p) = <<>> THEN <<>> ELSE PathParts(p)[Len(PathParts(p))]

\* the position in the name where Path(p).suffix starts, or 0: the last "."
\* that is neither the first nor the last character of the name
SuffixAt(name) ==
    IF \E i \in 2..(Len(name) - 1) : name[i] = "." /\ \A m \in (i + 1)..Len(name) : name[m] # "."
    THEN CHOOSE i \in 2..(Len(name) - 1) :
            name[i] = "." /\ \A m \in (i + 1)..Len(name) : name[m] # "."
    ELSE 0

\* Path(p).stem
PathStem(p) ==
    LET name == PathName(p)
    IN IF SuffixAt(name) = 0 THEN name ELSE SubSeq(name, 1, SuffixAt(name) - 1)

\* Path(p).suffix
PathSuffix(p) ==
    LET name == PathName(p)
    IN IF SuffixAt(name) = 0 THEN <<>> ELSE SubSeq(name, SuffixAt(name), Len(name))

\* str(Path(p).parent / filename): the components of p but the last, then the
\* file name; joining an empty file name leaves the parent
JoinParent(p, filename) ==
    LET parts == PathParts(p)
        parent == [k \in 1..(Len(parts) - 1) |-> Join(parts[k])]
    IN PathStr(PathRoot(p), parent \o (IF filename = "" THEN <<>> ELSE <<filename>>))

\* the path _generate_output_path builds, as tokens: the custom one is a single
\* token, being in normal form already
OutputPathTokens(cfg, spec, commit_prefix) ==
    LET output_dir == Get(cfg.dict, "output_dir", <<"screenshots">>)
        screenshots_config == Get(cfg.dict, "screenshots", EmptyDict)
        custom_output == Get(screenshots_config[spec.name], "output", <<>>)
    IN IF spec.name \in DOMAIN screenshots_config /\ custom_output # <<>>
       THEN << JoinParent(custom_output,
                          commit_prefix \o Join(PathStem(custom_output))
                                        \o Join(PathSuffix(custom_output))) >>
       ELSE output_dir \o <<"/", commit_prefix \o spec.name \o ".png">>

\* a bug: the prefix is written in front of the whole custom path
_generate_output_path_PrefixFirst(cfg, spec, commit_prefix) ==
    LET output_dir == Get(cfg.dict, "output_dir", <<"screenshots">>)
        screenshots_config == Get(cfg.dict, "screenshots", EmptyDict)
        custom_output == Get(screenshots_config[spec.name], "output", <<>>)
    IN IF spec.name \in DOMAIN screenshots_config /\ custom_output # <<>>
       THEN commit_prefix \o Join(custom_output)
       ELSE Join(output_dir) \o "/" \o commit_prefix \o spec.name \o ".png"

\* ScreenshotOrchestrator._generate_output_path: the text of the path
_generate_output_path(cfg, spec, commit_prefix) ==
    Join(OutputPathTokens(cfg, spec, commit_prefix))

\* what BrowserCapture.capture returns for that path: str(Path(spec.output_path))
ReturnedPath(cfg, spec, commit_prefix) == StrPath(OutputPathTokens(cfg, spec, commit_prefix))

----------------------------------------------------------------------------
(* The state of a run *)

MainBranch == <<"m", "a", "i", "n">>

Onlys == {{}, {"a"}, {"b"}}

\* the process has just started: nothing is built yet
Fresh ==
    /\ pc = "construct"
    /\ original_branch = <<>>
    /\ head = MainBranch
    /\ browser = [playwright |-> FALSE, browser |-> FALSE, context |-> FALSE]
    /\ server_process = FALSE
    /\ commit_groups = <<>>
    /\ gi = 0
    /\ si = 0
    /\ ti = 0
    /\ results = <<>>
    /\ printed = <<>>
    /\ calls = <<>>
    /\ exc = None
    /\ exit_code = -1

Init ==
    /\ list_flag \in BOOLEAN
    /\ history \in (IF list_flag THEN ListHistories ELSE RunHistories)
    /\ only \in (IF list_flag THEN {{}} ELSE Onlys)
    /\ config \in (IF list_flag THEN {NoConfig} ELSE Configs)
    /\ PLAYWRIGHT_AVAILABLE \in BOOLEAN
    /\ GIT_AVAILABLE \in BOOLEAN
    /\ project_exists \in BOOLEAN
    /\ (project_exists /\ PLAYWRIGHT_AVAILABLE /\ GIT_AVAILABLE) \/ history \in ShortHistories
    /\ PIL_AVAILABLE = TRUE
    /\ hazards = {"screenshot"}
    /\ Fresh

inputs == <<project_exists, history, only, list_flag, config, PLAYWRIGHT_AVAILABLE, GIT_AVAILABLE,
            PIL_AVAILABLE, hazards>>

\* one call to a collaborator: its name, the commit group and the position in
\* the group's screenshots it is for (0 when it has none), and whether it returned
Call(op, group, item, ok) == [op |-> op, group |-> group, item |-> item, ok |-> ok]

\* an exception leaves main: the process ends with a traceback
Die(e) ==
    /\ pc' = "exit"
    /\ exc' = e
    /\ exit_code' = 1

\* an exception leaves the try block of main: the finally clause runs teardown
RaiseInTry(e) ==
    /\ pc' = "teardown"
    /\ ti' = 1
    /\ exc' = e
    /\ UNCHANGED exit_code

----------------------------------------------------------------------------
(* main, up to the try block *)

\* sys.exit(1) after "Erreur: Projet non trouvé": no exception, nothing built
ExitNoProject ==
    /\ pc' = "exit"
    /\ exit_code' = 1
    /\ UNCHANGED exc

\* main up to the construction of the orchestrator: the check of the project
\* path, then ScreenshotOrchestrator.__init__, which builds the
\* GitProjectManager (repo.head.commit raises on a repository without commits)
\* before the BrowserCapture
Construct ==
    /\ pc = "construct"
    /\ IF ~project_exists
       THEN ExitNoProject /\ UNCHANGED original_branch
       ELSE IF ~GIT_AVAILABLE
       THEN Die("GitPython est requis") /\ UNCHANGED original_branch
       ELSE IF history = <<>>
       THEN Die("Reference at 'refs/heads/main' does not exist") /\ UNCHANGED original_branch
       ELSE IF ~PLAYWRIGHT_AVAILABLE
       THEN Die("Playwright est requis") /\ original_branch' = head
       ELSE /\ original_branch' = head
            /\ pc' = IF list_flag THEN "list" ELSE "setup"
            /\ UNCHANGED <<exc, exit_code>>
    /\ UNCHANGED <<inputs, head, browser, server_process, commit_groups, gi, si, ti,
                   results, printed, calls>>

\* the lines "→ {prefix}{spec.name}.png" of one commit group
ListedLines(cg) ==
    [k \in 1..Len(cg.screenshots) |->
        CommitPrefix(cg.index) \o cg.screenshots[k].name \o ".png"]

RECURSIVE Flatten(_)
Flatten(ss) == IF ss = <<>> THEN <<>> ELSE Head(ss) \o Flatten(Tail(ss))

\* main under --list
ListPlan ==
    /\ pc = "list"
    /\ \E ok \in BOOLEAN :
          /\ calls' = Append(calls, Call("iter_commits", 0, 0, ok))
          /\ IF ok
             THEN /\ commit_groups' = get_screenshot_commits(history)
                  /\ printed' = Flatten([g \in 1..Len(commit_groups') |->
                                            ListedLines(commit_groups'[g])])
                  /\ pc' = "exit"
                  /\ exit_code' = 0
                  /\ UNCHANGED exc
             ELSE /\ Die("git: iter_commits failed")
                  /\ UNCHANGED <<commit_groups, printed>>
    /\ UNCHANGED <<inputs, original_branch, head, browser, server_process, gi, si, ti,
                   results>>

\* ScreenshotOrchestrator.setup: BrowserCapture.start, then SymfonyServer.start
Setup ==
    /\ pc = "setup"
    /\ \E outcome \in {"playwright_fails", "launch_fails", "context_fails",
                       "server_fails", "ok"} :
          /\ browser' = [playwright |-> outcome # "playwright_fails",
                         browser    |-> outcome \notin {"playwright_fails", "launch_fails"},
                         context    |-> outcome \in {"server_fails", "ok"}]
          /\ server_process' = (outcome = "ok")
          /\ calls' = calls
                \o <<Call("browser.start", 0, 0, outcome \in {"server_fails", "ok"})>>
                \o (IF outcome \in {"server_fails", "ok"}
                    THEN <<Call("server.start", 0, 0, outcome = "ok")>> ELSE <<>>)
          /\ IF outcome = "ok"
             THEN pc' = "plan" /\ UNCHANGED <<ti, exc, exit_code>>
             ELSE RaiseInTry(outcome)
    /\ UNCHANGED <<inputs, original_branch, head, commit_groups, gi, si, results, printed>>

----------------------------------------------------------------------------
(* ScreenshotOrchestrator.run_from_git *)

\* [s for s in screenshots_to_take if s.name in only], as positions in the
\* group's screenshots; `if only:` is false for None and for an empty list
RECURSIVE FilterFrom(_, _, _)
FilterFrom(screenshots, names, k) ==
    IF k > Len(screenshots) THEN <<>>
    ELSE (IF names = {} \/ screenshots[k].name \in names THEN <<k>> ELSE <<>>)
         \o FilterFrom(screenshots, names, k + 1)

\* a bug: the names given with --only are not looked at
screenshots_to_take_All(cg, names) == FilterFrom(cg.screenshots, {}, 1)

screenshots_to_take(cg, names) == FilterFrom(cg.screenshots, names, 1)

\* the record appended after browser.capture returned
SuccessResult(cg, spec, path) ==
    [name         |-> spec.name,
     filename     |-> CommitPrefix(cg.index) \o spec.name \o ".png",
     path         |-> path,
     commit       |-> Short(cg.commit_sha),
     commit_index |-> cg.index,
     status       |-> "success",
     error        |-> None]

\* the record appended by either except clause
ErrorResult(cg, spec, detail) ==
    [name         |-> spec.name,
     filename     |-> CommitPrefix(cg.index) \o spec.name \o ".png",
     path         |-> None,
     commit       |-> Short(cg.commit_sha),
     commit_index |-> cg.index,
     status       |-> "error",
     error        |-> detail]

CheckoutFailed(e) == "Checkout failed: " \o e

cur_group == commit_groups[gi]

cur_take == screenshots_to_take(cur_group, only)

\* a bug: an empty plan ends the process at once, the finally clause of main
\* does not run
BuildPlan_EmptyPlanExits ==
    /\ pc = "plan"
    /\ \E ok \in BOOLEAN :
          /\ calls' = Append(calls, Call("iter_commits", 0, 0, ok))
          /\ IF ~ok
             THEN RaiseInTry("git: iter_commits failed") /\ UNCHANGED <<commit_groups, gi>>
             ELSE /\ commit_groups' = get_screenshot_commits(history)
                  /\ IF commit_groups' = <<>>
                     THEN pc' = "exit" /\ exit_code' = 0 /\ UNCHANGED <<gi, ti, exc>>
                     ELSE pc' = "group" /\ gi' = 1 /\ UNCHANGED <<ti, exc, exit_code>>
    /\ UNCHANGED <<inputs, original_branch, head, browser, server_process, si,
                   results, printed>>

\* the plan is built: lines 515-533
BuildPlan ==
    /\ pc = "plan"
    /\ \E ok \in BOOLEAN :
          /\ calls' = Append(calls, Call("iter_commits", 0, 0, ok))
          /\ IF ~ok
             THEN RaiseInTry("git: iter_commits failed") /\ UNCHANGED <<commit_groups, gi>>
             ELSE /\ commit_groups' = get_screenshot_commits(history)
                  /\ IF commit_groups' = <<>>
                     THEN pc' = "report" /\ UNCHANGED gi
                     ELSE pc' = "group" /\ gi' = 1
                  /\ UNCHANGED <<ti, exc, exit_code>>
    /\ UNCHANGED <<inputs, original_branch, head, browser, server_process, si,
                   results, printed>>

\* the for loop is exhausted: run_from_git returns
LoopEnd ==
    /\ pc = "group"
    /\ gi > Len(commit_groups)
    /\ pc' = "report"
    /\ UNCHANGED <<inputs, original_branch, head, browser, server_process, commit_groups,
                   gi, si, ti, results, printed, calls, exc, exit_code>>

\* `if not screenshots_to_take: continue`
SkipGroup ==
    /\ pc = "group"
    /\ gi <= Len(commit_groups)
    /\ cur_take = <<>>
    /\ gi' = gi + 1
    /\ UNCHANGED <<inputs, pc, original_branch, head, browser, server_process,
                   commit_groups, si, ti, results, printed, calls, exc, exit_code>>

\* a bug: the outer except clause ends the loop instead of going on
OuterExcept_Break(e) ==
    /\ results' = results \o
          [n \in 1..Len(cur_take) |->
              ErrorResult(cur_group, cur_group.screenshots[cur_take[n]], CheckoutFailed(e))]
    /\ gi' = Len(commit_groups) + 1
    /\ si' = 0
    /\ pc' = "group"

\* a bug: the outer except clause marks the first capture of the group only
OuterExcept_MarksFirstOnly(e) ==
    /\ results' = Append(results,
          ErrorResult(cur_group, cur_group.screenshots[cur_take[1]], CheckoutFailed(e)))
    /\ gi' = gi + 1
    /\ si' = 0
    /\ pc' = "group"

\* the outer except clause (lines 604-618): every capture of the group is
\* marked as failed and the loop goes on with the next group
OuterExcept(e) ==
    /\ results' = results \o
          [n \in 1..Len(cur_take) |->
              ErrorResult(cur_group, cur_group.screenshots[cur_take[n]], CheckoutFailed(e))]
    /\ gi' = gi + 1
    /\ si' = 0
    /\ pc' = "group"

\* a bug: a failed checkout is ignored and the group goes on
Checkout_IgnoresFailure ==
    /\ pc = "group"
    /\ gi <= Len(commit_groups)
    /\ cur_take # <<>>
    /\ \E ok \in BOOLEAN :
          /\ calls' = Append(calls, Call("checkout", gi, 0, ok))
          /\ head' = IF ok THEN cur_group.commit_sha ELSE head
          /\ pc' = "clear_cache"
          /\ UNCHANGED <<gi, si, results>>
    /\ UNCHANGED <<inputs, original_branch, browser, server_process, commit_groups, ti,
                   printed, exc, exit_code>>

\* git_manager.checkout_commit(commit_group.commit_sha)
Checkout ==
    /\ pc = "group"
    /\ gi <= Len(commit_groups)
    /\ cur_take # <<>>
    /\ \E ok \in BOOLEAN :
          /\ calls' = Append(calls, Call("checkout", gi, 0, ok))
          /\ IF ok
             THEN /\ head' = cur_group.commit_sha
                  /\ pc' = "clear_cache"
                  /\ UNCHANGED <<gi, si, results>>
             ELSE /\ OuterExcept("git checkout failed")
                  /\ UNCHANGED head
    /\ UNCHANGED <<inputs, original_branch, browser, server_process, commit_groups, ti,
                   printed, exc, exit_code>>

\* a bug: an error of the cache clear is swallowed and the group goes on
ClearCache_SwallowsError ==
    /\ pc = "clear_cache"
    /\ \E exists \in BOOLEAN, ok \in BOOLEAN :
          /\ exists \/ ok
          /\ calls' = Append(calls, Call("clear_cache", gi, 0, ok))
          /\ pc' = "restart"
          /\ UNCHANGED <<gi, si, results>>
    /\ UNCHANGED <<inputs, original_branch, head, browser, server_process, commit_groups,
                   ti, printed, exc, exit_code>>

\* server.clear_cache(): rmtree of var/cache when the directory exists
ClearCache ==
    /\ pc = "clear_cache"
    /\ \E exists \in BOOLEAN, ok \in BOOLEAN :
          /\ exists \/ ok
          /\ calls' = Append(calls, Call("clear_cache", gi, 0, ok))
          /\ IF ok
             THEN pc' = "restart" /\ UNCHANGED <<gi, si, results>>
             ELSE OuterExcept("rmtree failed")
    /\ UNCHANGED <<inputs, original_branch, head, browser, server_process, commit_groups,
                   ti, printed, exc, exit_code>>

\* a bug: the call to server.restart() is missing
Restart_Missing ==
    /\ pc = "restart"
    /\ pc' = "capture"
    /\ si' = 1
    /\ UNCHANGED <<inputs, original_branch, head, browser, server_process, commit_groups,
                   gi, ti, results, printed, calls, exc, exit_code>>

\* server.restart(): stop(), then start()
Restart ==
    /\ pc = "restart"
    /\ \E outcome \in {"stop_fails", "start_fails", "ok"} :
          /\ outcome = "stop_fails" => server_process
          /\ server_process' = IF outcome = "stop_fails" THEN server_process
                               ELSE outcome = "ok"
          /\ calls' = Append(calls, Call("restart", gi, 0, outcome = "ok"))
          /\ IF outcome = "ok"
             THEN pc' = "capture" /\ si' = 1 /\ UNCHANGED <<gi, results>>
             ELSE OuterExcept("server: " \o outcome)
    /\ UNCHANGED <<inputs, original_branch, head, browser, commit_groups, ti, printed,
                   exc, exit_code>>

\* the loop over screenshots_to_take moves on after one item
NextItem ==
    IF si < Len(cur_take)
    THEN si' = si + 1 /\ UNCHANGED <<gi, pc>>
    ELSE si' = 0 /\ gi' = gi + 1 /\ pc' = "group"

\* a bug: no inner try, the error of one capture reaches the outer except clause
InnerExcept_Propagates(e) ==
    /\ results' = results \o
          [n \in 1..Len(cur_take) |->
              ErrorResult(cur_group, cur_group.screenshots[cur_take[n]], CheckoutFailed(e))]
    /\ gi' = gi + 1
    /\ si' = 0
    /\ pc' = "group"

\* the inner except clause (lines 590-602): the item is recorded as failed
InnerExcept(e) ==
    /\ results' = Append(results,
                         ErrorResult(cur_group, cur_group.screenshots[cur_take[si]], e))
    /\ NextItem

----------------------------------------------------------------------------
(* BrowserCapture.capture: what it did, as the list of the calls it made, and *)
(* the exception it raised, or None.  F is the set of its calls that raise.   *)

EngineHazards == {"new_page", "goto", "wait_for_selector", "title", "screenshot",
                  "add_title_bar"}

Done(steps) == [steps |-> steps, error |-> None]

Raised(steps, e) == [steps |-> steps, error |-> e]

\* the statements of a run one after the other: the second part runs when the
\* first did not raise
Then(first, second) ==
    IF first.error # None THEN first
    ELSE [steps |-> first.steps \o second.steps, error |-> second.error]

\* lines 420-423
NewPage(F) ==
    IF "new_page" \in F THEN Raised(<<"new_page:raised">>, "new_page failed")
    ELSE Done(<<"new_page", "set_viewport_size">>)

\* a bug: the navigation error is raised again unless the page is an error page
Navigate_Raises(spec, F) ==
    IF "goto" \in F
    THEN IF spec.is_error_page THEN Done(<<"goto:raised">>)
         ELSE Raised(<<"goto:raised">>, "goto failed")
    ELSE Done(<<"goto">>)

\* lines 427-434: the except clause passes or prints a warning
Navigate(spec, F) ==
    IF "goto" \in F
    THEN Done(<<"goto:raised">> \o (IF spec.is_error_page THEN <<>> ELSE <<"print:warning">>))
    ELSE Done(<<"goto">>)

\* lines 436-440: `if spec.wait_for:` and the bare except clause
WaitFor(spec, F) ==
    IF spec.wait_for \in {None, ""} THEN Done(<<>>)
    ELSE IF "wait_for_selector" \in F THEN Done(<<"wait_for_selector:raised">>)
    ELSE Done(<<"wait_for_selector">>)

\* lines 442-452: the delay, the title, the directory, the screenshot, the close
Shoot(spec, F) ==
    IF "title" \in F THEN Raised(<<"sleep", "title:raised">>, "title failed")
    ELSE IF "screenshot" \in F
    THEN Raised(<<"sleep", "title", "mkdir", "screenshot:raised">>, "capture failed")
    ELSE Done(<<"sleep", "title", "mkdir", "screenshot", "close">>)

\* a bug: the error of the title bar is not caught, and a missing Pillow raises
Annotate_Raises(spec, F, renderer) ==
    IF ~spec.show_title_bar THEN Done(<<>>)
    ELSE IF ~renderer THEN Raised(<<>>, "Pillow est requis")
    ELSE IF "add_title_bar" \in F
    THEN Raised(<<"add_title_bar:raised">>, "add_title_bar failed")
    ELSE Done(<<"add_title_bar", "print">>)

\* lines 454-470: the title bar, when asked for; renderer is whether
\* BrowserCapture.start built a TitleBarRenderer
Annotate(spec, F, renderer) ==
    IF ~spec.show_title_bar THEN Done(<<>>)
    ELSE IF ~renderer THEN Done(<<"print:pillow_missing">>)
    ELSE IF "add_title_bar" \in F THEN Done(<<"add_title_bar:raised", "print:warning">>)
    ELSE Done(<<"add_title_bar", "print">>)

\* BrowserCapture.capture
capture(spec, F, renderer) ==
    Then(Then(Then(Then(NewPage(F), Navigate(spec, F)), WaitFor(spec, F)), Shoot(spec, F)),
         Annotate(spec, F, renderer))

\* the call of browser.capture in the log: like Call, with what the engine did
CaptureCall(group, item, out) ==
    [op |-> "capture", group |-> group, item |-> item, ok |-> out.error = None,
     steps |-> out.steps]

\* one turn of the loop over screenshots_to_take (lines 562-602)
Capture ==
    /\ pc = "capture"
    /\ LET k == cur_take[si]
           spec == cur_group.screenshots[k]
           resolved == _apply_screenshot_config(config, spec)
           final == [resolved EXCEPT !.output_path =
                        _generate_output_path(config, resolved, CommitPrefix(cur_group.index))]
       IN IF ConfigRaises(config)
          THEN /\ InnerExcept(AttributeErrorText)
               /\ UNCHANGED <<commit_groups, calls>>
          ELSE /\ commit_groups' = [commit_groups EXCEPT ![gi].screenshots[k] = final]
               /\ \E F \in SUBSET hazards :
                     LET out == capture(final, F, PIL_AVAILABLE)
                     IN /\ calls' = Append(calls, CaptureCall(gi, k, out))
                        /\ IF out.error = None
                           THEN /\ results' = Append(results,
                                         SuccessResult(cur_group, final,
                                            ReturnedPath(config, resolved,
                                                         CommitPrefix(cur_group.index))))
                                /\ NextItem
                           ELSE InnerExcept(out.error)
    /\ UNCHANGED <<inputs, original_branch, head, browser, server_process, ti, printed,
                   exc, exit_code>>

\* print(orchestrator.generate_report()), then the finally clause
Report ==
    /\ pc = "report"
    /\ pc' = "teardown"
    /\ ti' = 1
    /\ UNCHANGED <<inputs, original_branch, head, browser, server_process, commit_groups,
                   gi, si, results, printed, calls, exc, exit_code>>

----------------------------------------------------------------------------
(* ScreenshotOrchestrator.teardown *)

\* a bug: the version-control state is restored first
teardown_steps_RestoreFirst == <<"restore_original", "browser.stop", "server.stop">>

\* the statements of teardown, in order
teardown_steps == <<"browser.stop", "server.stop", "restore_original">>

\* whether the step has anything to release: BrowserCapture.stop and
\* SymfonyServer.stop test their attributes, restore_original always checks out
HasWork(step) ==
    CASE step = "browser.stop" -> browser.context \/ browser.browser \/ browser.playwright
      [] step = "server.stop"  -> server_process
      [] OTHER                 -> TRUE

\* one statement of teardown; when it raises, the rest of teardown is not run
\* and the exception leaves main
TeardownStep ==
    /\ pc = "teardown"
    /\ ti <= Len(teardown_steps)
    /\ LET step == teardown_steps[ti]
       IN \E ok \in BOOLEAN :
             /\ ~ok => HasWork(step)
             /\ calls' = Append(calls, Call(step, 0, 0, ok))
             /\ server_process' = IF step = "server.stop" /\ ok THEN FALSE ELSE server_process
             /\ head' = IF step = "restore_original" /\ ok THEN original_branch ELSE head
             /\ IF ~ok
                THEN Die(step \o " failed") /\ UNCHANGED ti
                ELSE IF ti < Len(teardown_steps)
                THEN ti' = ti + 1 /\ UNCHANGED <<pc, exc, exit_code>>
                ELSE /\ pc' = "exit"
                     /\ exit_code' = IF exc = None THEN 0 ELSE 1
                     /\ UNCHANGED <<ti, exc>>
    /\ UNCHANGED <<inputs, original_branch, browser, commit_groups, gi, si, results,
                   printed>>

----------------------------------------------------------------------------

Next ==
    \/ Construct
    \/ ListPlan
    \/ Setup
    \/ BuildPlan
    \/ LoopEnd
    \/ SkipGroup
    \/ Checkout
    \/ ClearCache
    \/ Restart
    \/ Capture
    \/ Report
    \/ TeardownStep

Spec == Init /\ [][Next]_vars

----------------------------------------------------------------------------
(* A run on one history, for every config document and every way the engine *)
(* can fail: the older commit is filtered out by --only, the newer one has  *)
(* the capture "b" taken under the prefix 02_                               *)

CaptureHistory == HistoryOf(<< <<TAG, "a", ",", " ", "b", "]", " ", "b">>, <<TAG, "a", "]">> >>)

InitCapture ==
    /\ list_flag = FALSE
    /\ project_exists = TRUE
    /\ history = CaptureHistory
    /\ only = {"b"}
    /\ PLAYWRIGHT_AVAILABLE = TRUE
    /\ GIT_AVAILABLE = TRUE
    /\ \/ config \in OverlayConfigs /\ PIL_AVAILABLE = TRUE /\ hazards = {"screenshot"}
       \/ config \in EngineConfigs /\ PIL_AVAILABLE \in BOOLEAN /\ hazards = EngineHazards
    /\ Fresh

NextCapture ==
    \/ Construct
    \/ Setup
    \/ BuildPlan
    \/ LoopEnd
    \/ SkipGroup
    \/ Checkout
    \/ ClearCache
    \/ Restart
    \/ Capture
    \/ Report
    \/ TeardownStep

SpecCapture == InitCapture /\ [][NextCapture]_vars

----------------------------------------------------------------------------
(* A long history: n commits tagged a, the newest one tagged a, b.  Under   *)
(* --list the plan is printed; in a run --only b skips every group but the  *)
(* newest                                                                   *)

LongHistory(n) ==
    HistoryOf([k \in 1..n |-> IF k = 1 THEN <<TAG, "a", ",", " ", "b", "]", " ", "b">>
                                       ELSE <<TAG, "a", "]">>])

InitLong ==
    /\ list_flag \in BOOLEAN
    /\ project_exists = TRUE
    /\ history \in {LongHistory(n) : n \in (MaxLongCommits - 1)..MaxLongCommits}
    /\ only = (IF list_flag THEN {} ELSE {"b"})
    /\ config = NoConfig
    /\ PLAYWRIGHT_AVAILABLE = TRUE
    /\ GIT_AVAILABLE = TRUE
    /\ PIL_AVAILABLE = TRUE
    /\ hazards = {"screenshot"}
    /\ Fresh

SpecLong == InitLong /\ [][Next]_vars

----------------------------------------------------------------------------
(* Properties *)

\* the positions in calls of the calls to op
CallsTo(op) == {i \in 1..Len(calls) : calls[i].op = op}

\* the positions in calls of the calls to op for commit group g
GroupCalls(op, g) == {i \in CallsTo(op) : calls[i].group = g}

\* main entered its try block: setup was called
EnteredTry == CallsTo("browser.start") # {}

\* main has ended, after having entered its try block
RunEnded == pc = "exit" /\ EnteredTry

\* C1: every run of main that enters the try block ends in teardown, and
\* restore_original is invoked exactly once in it.
C1_RestoreExactlyOnce ==
    RunEnded => (ti >= 1 /\ Cardinality(CallsTo("restore_original")) = 1)

\* C2: when browser.stop or server.stop raises in teardown, the releases that
\* follow it in teardown's order, restore_original included, are still executed.
C2_LaterReleasesStillRun ==
    RunEnded =>
        \A i \in CallsTo("browser.stop") \cup CallsTo("server.stop") :
            ~calls[i].ok =>
                /\ \E j \in CallsTo("restore_original") : j > i
                /\ calls[i].op = "browser.stop" => \E j \in CallsTo("server.stop") : j > i

\* C3: after any run that entered setup, the working tree is on the branch
\* recorded at construction when the process ends.
C3_WorkingTreeRestored ==
    RunEnded => head = original_branch

\* the records of results that belong to commit group g
GroupResults(g) == SelectSeq(results, LAMBDA r : r.commit_index = g)

\* the positions, in the screenshots of group g of the plan, of the captures
\* that the inclusion name-set keeps
WantedOf(g) ==
    LET ss == commit_groups[g].screenshots
    IN SelectSeq([k \in 1..Len(ss) |-> k], LAMBDA k : only = {} \/ ss[k].name \in only)

\* the engine was invoked for item k of group g and raised
CaptureRaised(g, k) == \E i \in GroupCalls("capture", g) : calls[i].item = k /\ ~calls[i].ok

\* the captures of group g were reached: its restart returned
Capturing(g) == \E i \in GroupCalls("restart", g) : calls[i].ok

\* C4: in a group that reached its captures, an error raised while resolving
\* the config or capturing item N makes item N's record an error and nothing
\* else: every filtered item of the group has one record, in list order, which
\* is an error exactly when that item's own attempt raised, the engine was
\* invoked once for every item whose config resolved, and later groups are
\* still attempted.
C4_FailureIsolated ==
    pc = "report" =>
        \A g \in 1..Len(commit_groups) :
            /\ WantedOf(g) # <<>> => GroupCalls("checkout", g) # {}
            /\ Capturing(g) =>
                 LET want == WantedOf(g)
                     rs == GroupResults(g)
                 IN /\ Len(rs) = Len(want)
                    /\ \A n \in 1..Len(want) :
                         LET k == want[n]
                             failed == ConfigRaises(config) \/ CaptureRaised(g, k)
                         IN /\ rs[n].name = commit_groups[g].screenshots[k].name
                            /\ rs[n].status = (IF failed THEN "error" ELSE "success")
                            /\ failed => rs[n].error \in {"capture failed", AttributeErrorText}
                            /\ ~ConfigRaises(config) =>
                                 Cardinality({i \in GroupCalls("capture", g) :
                                                 calls[i].item = k}) = 1

\* a run where the first item of a group of two failed in the engine, the
\* second succeeded, and a later group was captured too
C4_Witness ==
    /\ pc = "report"
    /\ \E g \in 1..Len(commit_groups) :
          /\ Len(GroupResults(g)) = 2
          /\ GroupResults(g)[1].status = "error"
          /\ GroupResults(g)[1].error = "capture failed"
          /\ GroupResults(g)[2].status = "success"
          /\ \E h \in (g + 1)..Len(commit_groups) :
                \E n \in 1..Len(GroupResults(h)) : GroupResults(h)[n].status = "success"

\* C5: when checkout_commit fails for a group, the group's records are exactly
\* one error with the checkout-failure detail per filtered capture, the engine
\* is invoked for none of them, and the loop goes on with the next group.
C5_CheckoutFailureMarksGroup ==
    \A i \in CallsTo("checkout") :
        ~calls[i].ok =>
            LET g == calls[i].group
                want == WantedOf(g)
                rs == GroupResults(g)
            IN /\ Len(rs) = Len(want)
               /\ \A n \in 1..Len(want) :
                     /\ rs[n].name = commit_groups[g].screenshots[want[n]].name
                     /\ rs[n].status = "error"
                     /\ rs[n].error = "Checkout failed: git checkout failed"
                     /\ rs[n].path = None
               /\ GroupCalls("capture", g) = {}
               /\ gi > g
               /\ i = Len(calls) => (pc \in {"group", "report", "teardown"} /\ exc = None)
               /\ pc = "report" =>
                     \A h \in (g + 1)..Len(commit_groups) :
                         WantedOf(h) # <<>> => GroupCalls("checkout", h) # {}

\* the checkout of a group of two captures failed and the next group was
\* checked out
C5_Witness ==
    \E i \in CallsTo("checkout") :
        /\ ~calls[i].ok
        /\ Len(WantedOf(calls[i].group)) = 2
        /\ \E j \in CallsTo("checkout") : j > i /\ calls[j].ok /\ calls[j].group > calls[i].group

IsPrefix(a, b) == Len(a) <= Len(b) /\ SubSeq(b, 1, Len(a)) = a

\* (group index, name) of the captures the plan and the name-set ask for, in
\* chronological group order and list order within a group
RECURSIVE ExpectedKeysFrom(_)
ExpectedKeysFrom(g) ==
    IF g > Len(commit_groups) THEN <<>>
    ELSE [n \in 1..Len(WantedOf(g)) |->
             <<commit_groups[g].index, commit_groups[g].screenshots[WantedOf(g)[n]].name>>]
         \o ExpectedKeysFrom(g + 1)

ResultKeys == [i \in 1..Len(results) |-> <<results[i].commit_index, results[i].name>>]

\* C6: results is append-only, and when run_from_git returns it holds exactly
\* one record per filtered capture of the plan, in chronological group order
\* and list order within a group.
C6_OneRecordPerCapture ==
    /\ [][IsPrefix(results, results')]_vars
    /\ [](pc = "report" => ResultKeys = ExpectedKeysFrom(1))

\* run_from_git returned after a failed checkout in one group and both a
\* failed and a successful capture in another
C6_Witness ==
    /\ pc = "report"
    /\ Len(results) = 3
    /\ \E i \in CallsTo("checkout") : ~calls[i].ok
    /\ \E i \in CallsTo("capture") : ~calls[i].ok
    /\ \E i \in CallsTo("capture") : calls[i].ok

\* C7: in teardown the capture engine is stopped before the server, and the
\* server before the version-control state is restored.
C7_TeardownOrder ==
    \A i \in 1..Len(calls) :
        /\ calls[i].op = "server.stop" => \E j \in CallsTo("browser.stop") : j < i
        /\ calls[i].op = "restore_original" => \E j \in CallsTo("server.stop") : j < i

\* a teardown that ran its three releases
C7_Witness ==
    /\ pc = "exit"
    /\ CallsTo("browser.stop") # {}
    /\ CallsTo("server.stop") # {}
    /\ CallsTo("restore_original") # {}

\* the calls to op for group g number exactly one
OnceFor(op, g) == Cardinality(GroupCalls(op, g)) = 1

\* C8 as stated: for every processed group whose checkout succeeded, the
\* cache clear and the server restart each happened exactly once, after the
\* checkout and before the group's first capture, and no restart lies between
\* two captures of the group.
C8_RestartOncePerCheckedOutGroup ==
    \A i \in CallsTo("checkout") :
        (calls[i].ok /\ gi > calls[i].group) =>
            LET g == calls[i].group
            IN /\ OnceFor("clear_cache", g)
               /\ OnceFor("restart", g)
               /\ \A c \in GroupCalls("clear_cache", g) : c = i + 1
               /\ \A r \in GroupCalls("restart", g) : r = i + 2
               /\ \A c \in GroupCalls("capture", g) :
                     /\ c > i + 2
                     /\ \A m \in (i + 3)..c : calls[m].op = "capture" /\ calls[m].group = g

\* C8 amended: after a successful checkout of a group the cache clear is the
\* next call and is made once; when it returns, the restart is the next call
\* and is made once; every capture of the group comes after that one restart,
\* which returned, with nothing but captures of the group in between; when the
\* cache clear raises, the group has no restart and no capture.
C8_RestartOncePerGroupAmended ==
    \A i \in CallsTo("checkout") :
        calls[i].ok =>
            LET g == calls[i].group
            IN /\ Cardinality(GroupCalls("checkout", g)) = 1
               /\ Cardinality(GroupCalls("clear_cache", g)) <= 1
               /\ Cardinality(GroupCalls("restart", g)) <= 1
               /\ (i < Len(calls) \/ gi > g) => GroupCalls("clear_cache", g) = {i + 1}
               /\ \A c \in GroupCalls("clear_cache", g) :
                     IF calls[c].ok
                     THEN (c < Len(calls) \/ gi > g) => GroupCalls("restart", g) = {c + 1}
                     ELSE GroupCalls("restart", g) = {} /\ GroupCalls("capture", g) = {}
               /\ \A c \in GroupCalls("capture", g) :
                     /\ i + 2 \in GroupCalls("restart", g)
                     /\ calls[i + 2].ok
                     /\ c > i + 2
                     /\ \A m \in (i + 3)..c : calls[m].op = "capture" /\ calls[m].group = g

\* a group of two captures taken after one restart
C8_Witness ==
    \E g \in 1..Len(commit_groups) :
        /\ gi > g
        /\ OnceFor("restart", g)
        /\ Cardinality(GroupCalls("capture", g)) = 2

\* the plan has been built from the history
Planned == \E i \in CallsTo("iter_commits") : calls[i].ok

\* the positions in the history (newest first) of the commits bearing the annotation
Annotated == {p \in 1..Len(history) : PatternSearch(history[p].message) # 0}

\* the position in the history of the k-th oldest annotated commit
KthOldest(k) ==
    LET marked == Annotated
    IN CHOOSE p \in marked : Cardinality({q \in marked : q >= p}) = k

\* C9: the plan lists the annotated commits oldest first, and their indexes are
\* 1..K in that order, K being the number of annotated commits.
C9_ChronologicalIndex ==
    Planned =>
        /\ Len(commit_groups) = Cardinality(Annotated)
        /\ \A k \in 1..Len(commit_groups) :
              /\ commit_groups[k].index = k
              /\ commit_groups[k].commit_sha = history[KthOldest(k)].hexsha
              /\ commit_groups[k].commit_message = history[KthOldest(k)].message

\* a plan of two groups from a history of three commits
C9_Witness ==
    /\ Planned
    /\ Len(history) = 3
    /\ Len(commit_groups) = 2
    /\ commit_groups[1].commit_sha = ShaOf(1)
    /\ commit_groups[2].commit_sha = ShaOf(3)

\* the positions of the commas in a token sequence
Commas(s) == {i \in 1..Len(s) : s[i] = ","}

\* the j-th piece of s between commas: from after the (j-1)-th comma to before
\* the j-th
PieceOf(s, j) ==
    LET before == IF j = 1 THEN 0
                  ELSE CHOOSE c \in Commas(s) : Cardinality({d \in Commas(s) : d <= c}) = j - 1
        after == IF j = Cardinality(Commas(s)) + 1 THEN Len(s) + 1
                 ELSE CHOOSE c \in Commas(s) : Cardinality({d \in Commas(s) : d <= c}) = j
    IN SubSeq(s, before + 1, after - 1)

\* a piece without its surrounding blanks: from its first to its last token
\* that is not a blank
Trimmed(piece) ==
    LET solid == {i \in 1..Len(piece) : piece[i] # " "}
    IN IF solid = {} THEN <<>>
       ELSE SubSeq(piece, CHOOSE i \in solid : \A m \in solid : i <= m,
                          CHOOSE i \in solid : \A m \in solid : i >= m)

\* the text between the tag and the first "]" after it
AnnotationOf(msg) ==
    LET t == CHOOSE i \in 1..Len(msg) : MatchesAt(msg, i) /\ \A m \in 1..(i - 1) : ~MatchesAt(msg, m)
        e == CHOOSE j \in (t + 1)..Len(msg) : msg[j] = "]" /\ \A m \in (t + 1)..(j - 1) : msg[m] # "]"
    IN SubSeq(msg, t + 1, e - 1)

\* C10: a commit whose annotation lists n comma-separated names yields n specs
\* in its group, all with the commit's id, in the listed order, each name
\* without its surrounding blanks.
C10_OneSpecPerListedName ==
    Planned =>
        \A k \in 1..Len(commit_groups) :
            LET cg == commit_groups[k]
                listed == AnnotationOf(cg.commit_message)
                n == Cardinality(Commas(listed)) + 1
            IN /\ Len(cg.screenshots) = n
               /\ \A j \in 1..n :
                     /\ cg.screenshots[j].commit_sha = cg.commit_sha
                     /\ cg.screenshots[j].name = Join(Trimmed(PieceOf(listed, j)))

\* a commit listing three names with blanks around them
C10_Witness ==
    /\ Planned
    /\ \E k \in 1..Len(commit_groups) :
          /\ commit_groups[k].commit_message =
                <<TAG, " ", "a", ",", " ", "b", " ", ",", "a", "]">>
          /\ Len(commit_groups[k].screenshots) = 3
          /\ commit_groups[k].screenshots[1].name = "a"
          /\ commit_groups[k].screenshots[2].name = "b"
          /\ commit_groups[k].screenshots[3].name = "a"

----------------------------------------------------------------------------
\* the message holds no annotation opener at all
NoTag(msg) == \A i \in 1..Len(msg) : msg[i] # TAG

\* the message opens an annotation that is never closed
Unclosed(msg) ==
    /\ ~NoTag(msg)
    /\ \A i \in 1..Len(msg) : msg[i] = TAG => \A j \in (i + 1)..Len(msg) : msg[j] # "]"

\* the positions in the history of the commits without a well-formed annotation
Unmarked == {p \in 1..Len(history) :
                NoTag(history[p].message) \/ Unclosed(history[p].message)}

\* C11: a commit whose message has no annotation, or an annotation without its
\* closing delimiter, gives no group and no spec to the plan and uses up no
\* index: the indexes of the groups are 1..K with no gap, K being at most the
\* number of the other commits.
C11_UnmarkedCommitsLeftOut ==
    Planned =>
        /\ \A p \in Unmarked : \A k \in 1..Len(commit_groups) :
              /\ commit_groups[k].commit_sha # history[p].hexsha
              /\ \A j \in 1..Len(commit_groups[k].screenshots) :
                    commit_groups[k].screenshots[j].commit_sha # history[p].hexsha
        /\ \A k \in 1..Len(commit_groups) : commit_groups[k].index = k
        /\ Len(commit_groups) <= Len(history) - Cardinality(Unmarked)

\* a history of three commits, one without annotation and one with an unclosed
\* annotation, planned as a single group of index 1
C11_Witness ==
    /\ Planned
    /\ Len(history) = 3
    /\ \E p \in Unmarked : NoTag(history[p].message)
    /\ \E p \in Unmarked : Unclosed(history[p].message)
    /\ Len(commit_groups) = 1
    /\ commit_groups[1].index = 1

----------------------------------------------------------------------------
\* the `defaults` section of the document, empty when there is none
DefaultsGiven == IF "defaults" \in DOMAIN config.dict THEN config.dict["defaults"] ELSE <<>>

\* the entry of the capture called name, empty when there is none
EntryGiven(name) ==
    IF "screenshots" \in DOMAIN config.dict /\ name \in DOMAIN config.dict["screenshots"]
    THEN config.dict["screenshots"][name]
    ELSE <<>>

\* the spec the engine was called with at position i of calls
SpecAt(i) == commit_groups[calls[i].group].screenshots[calls[i].item]

\* C12: the resolved spec of every capture has the show_title_bar of its named
\* entry when the entry gives one, else the one of the `defaults` section when
\* it gives one, else the compiled default, which is False.
C12_TitleBarPrecedence ==
    \A i \in CallsTo("capture") :
        LET named == EntryGiven(SpecAt(i).name)
        IN SpecAt(i).show_title_bar =
              (IF "show_title_bar" \in DOMAIN named THEN named["show_title_bar"]
               ELSE IF "show_title_bar" \in DOMAIN DefaultsGiven
               THEN DefaultsGiven["show_title_bar"]
               ELSE FALSE)

\* a capture resolved from defaults {show_title_bar: true} and a named entry
\* {show_title_bar: false}
C12_Witness ==
    \E i \in CallsTo("capture") :
        /\ "show_title_bar" \in DOMAIN DefaultsGiven
        /\ DefaultsGiven["show_title_bar"] = TRUE
        /\ "show_title_bar" \in DOMAIN EntryGiven(SpecAt(i).name)
        /\ EntryGiven(SpecAt(i).name)["show_title_bar"] = FALSE
        /\ SpecAt(i).show_title_bar = FALSE

\* the recognized keys of C13, under the names the documents give them
RecognizedKeys == {"url", "viewport_width", "viewport_height", "full_page", "wait_for",
                   "delay", "show_title_bar", "title_bar_style"}

\* C13: for every recognized key, a value given in the `defaults` section and
\* not in the named entry of a capture is the value of its resolved spec.
C13_DefaultsApplyEveryKey ==
    \A i \in CallsTo("capture") :
        \A key \in RecognizedKeys :
            (key \in DOMAIN DefaultsGiven /\ key \notin DOMAIN EntryGiven(SpecAt(i).name))
                => SpecAt(i)[key] = DefaultsGiven[key]

\* where the file name starts in a path given as characters
NameStart(path) ==
    CHOOSE n \in 1..(Len(path) + 1) :
        /\ n = 1 \/ path[n - 1] = "/"
        /\ \A m \in n..Len(path) : path[m] # "/"

\* the path with the prefix written in front of its file name
PrefixedName(path, prefix) ==
    Join(SubSeq(path, 1, NameStart(path) - 1)) \o prefix
        \o Join(SubSeq(path, NameStart(path), Len(path)))

\* the two-digit prefix of the groups 1..9
TwoDigits(index) == "0" \o ToString(index) \o "_"

\* the path pathlib reads a path as, for the paths that are tried and are
\* not written in its normal form: no "." component, no doubled or trailing "/"
NormalFormOf(path) ==
    CASE path = <<".", "/", "h", ".", "p">> -> <<"h", ".", "p">>
      [] path = <<"c", "/", "/", "h", ".", "p">> -> <<"c", "/", "h", ".", "p">>
      [] path = <<"c", "/", ".", "/", "h", ".", "p">> -> <<"c", "/", "h", ".", "p">>
      [] path = <<"c", "/">> -> <<"c">>
      [] path = <<".">> -> <<>>
      [] path = <<"c", ".", "h", "/">> -> <<"c", ".", "h">>
      [] path = <<"out", "/">> -> <<"out">>
      [] path = <<".", "/", "out">> -> <<"out">>
      [] path = <<"out", "/", "/", "x">> -> <<"out", "/", "x">>
      [] OTHER -> path

\* the file the capture of call i writes its screenshot to: the final output
\* path of its spec as pathlib reads it
WrittenPath(i) ==
    LET spec == SpecAt(i)
        named == EntryGiven(spec.name)
        prefix == TwoDigits(commit_groups[calls[i].group].index)
        dir == IF "output_dir" \in DOMAIN config.dict
               THEN config.dict["output_dir"] ELSE <<"screenshots">>
    IN IF "output" \in DOMAIN named /\ Len(named["output"]) > 0
       THEN PrefixedName(NormalFormOf(named["output"]), prefix)
       ELSE Join(NormalFormOf(dir)) \o "/" \o prefix \o spec.name \o ".png"

\* C14: the final path of a capture whose entry gives a non-empty output is
\* that path, as pathlib reads it, with the prefix of the group written in
\* front of its file name, directory and extension untouched; the final path of
\* any other capture is {output_dir}/{prefix}{name}.png, output_dir being
\* "screenshots" when the document gives none; a successful capture is
\* recorded with that path, the output_dir read as pathlib reads it.
C14_FinalOutputPath ==
    \A i \in CallsTo("capture") :
        LET spec == SpecAt(i)
            named == EntryGiven(spec.name)
            prefix == TwoDigits(commit_groups[calls[i].group].index)
            dir == IF "output_dir" \in DOMAIN config.dict
                   THEN config.dict["output_dir"] ELSE <<"screenshots">>
            custom == "output" \in DOMAIN named /\ Len(named["output"]) > 0
            file == prefix \o spec.name \o ".png"
            expected == IF custom THEN PrefixedName(NormalFormOf(named["output"]), prefix)
                        ELSE Join(dir) \o "/" \o file
        IN /\ spec.output_path = expected
           /\ calls[i].ok =>
                 \E n \in 1..Len(results) :
                    /\ results[n].commit_index = commit_groups[calls[i].group].index
                    /\ results[n].name = spec.name
                    /\ results[n].path = WrittenPath(i)

\* the capture "b" of the second group, configured with output c/h.p, was
\* written to c/02_h.p
C14_Witness ==
    \E i \in CallsTo("capture") :
        /\ calls[i].ok
        /\ EntryGiven(SpecAt(i).name) = [output |-> <<"c", "/", "h", ".", "p">>]
        /\ SpecAt(i).output_path = "c/02_h.p"
        /\ \E n \in 1..Len(results) : results[n].path = "c/02_h.p"

----------------------------------------------------------------------------
\* the history of the example: a first commit tagged a, a second one tagged a, b
TwoReleases ==
    /\ Len(history) = 2
    /\ history[2].message = <<TAG, "a", "]">>
    /\ history[1].message = <<TAG, "a", ",", " ", "b", "]", " ", "b">>

\* C15: a name tagged in several commits is captured once per commit, under
\* that commit's prefix: every record's filename is the two-digit index of its
\* group, "_", the name and ".png"; two captures written for different groups
\* never have the same path; and a first commit tagged a followed by a commit
\* tagged a, b is planned as the groups 1 and 2, the second with two captures,
\* and recorded as 01_a.png, 02_a.png, 02_b.png.
C15_OncePerCommit ==
    /\ \A n \in 1..Len(results) :
          results[n].filename = TwoDigits(results[n].commit_index) \o results[n].name \o ".png"
    /\ \A n, m \in 1..Len(results) :
          (/\ results[n].status = "success"
           /\ results[m].status = "success"
           /\ results[n].commit_index # results[m].commit_index)
             => results[n].path # results[m].path
    /\ (TwoReleases /\ Planned) =>
          /\ Len(commit_groups) = 2
          /\ commit_groups[1].index = 1
          /\ commit_groups[2].index = 2
          /\ Len(commit_groups[2].screenshots) = 2
    /\ (TwoReleases /\ only = {} /\ pc = "report") =>
          [n \in 1..Len(results) |-> results[n].filename]
             = <<"01_a.png", "02_a.png", "02_b.png">>

\* the example, run without config and without failure: three files
C15_Witness ==
    /\ TwoReleases
    /\ pc = "report"
    /\ [n \in 1..Len(results) |-> results[n].path]
          = <<"screenshots/01_a.png", "screenshots/02_a.png", "screenshots/02_b.png">>

----------------------------------------------------------------------------
\* run_from_git built a plan without any group
EmptyPlan == ~list_flag /\ Planned /\ commit_groups = <<>>

\* C16: when the plan is empty, run_from_git returns at once: no checkout, no
\* cache clear, no restart and no capture is ever made, results stays empty,
\* and main goes on to the report and to teardown, which it has invoked by the
\* time the process ends.
C16_EmptyPlanDoesNothing ==
    EmptyPlan =>
        /\ CallsTo("checkout") = {}
        /\ CallsTo("clear_cache") = {}
        /\ CallsTo("restart") = {}
        /\ CallsTo("capture") = {}
        /\ results = <<>>
        /\ pc \in {"report", "teardown", "exit"}
        /\ pc = "exit" => (ti >= 1 /\ CallsTo("browser.stop") # {})

\* a run over a history of untagged commits has ended
C16_Witness ==
    /\ EmptyPlan
    /\ Len(history) = 2
    /\ pc = "exit"
    /\ CallsTo("restore_original") # {}

----------------------------------------------------------------------------
\* C17: on an existing project with commits, with version control present and
\* the browser automation missing, main under --list ends with exit code 0,
\* having read the history and printed the lines of the plan, and having
\* started no browser, no server and made no checkout.
C17_ListWithoutBrowser ==
    (list_flag /\ project_exists /\ history # <<>> /\ GIT_AVAILABLE
        /\ ~PLAYWRIGHT_AVAILABLE /\ pc = "exit") =>
        /\ exit_code = 0
        /\ exc = None
        /\ Planned
        /\ Len(printed) > 0 <=> Len(commit_groups) > 0
        /\ CallsTo("browser.start") = {}
        /\ CallsTo("server.start") = {}
        /\ CallsTo("checkout") = {}

\* the group of the plan that record r names by its index
GroupOf(r) == CHOOSE g \in 1..Len(commit_groups) : commit_groups[g].index = r.commit_index

\* C18: every record of results has the status success or error, a path
\* exactly when it is a success and an error detail exactly when it is an
\* error; its index is that of one group of the plan, its commit is the first
\* eight characters of that group's commit id, and its name is one of that
\* group's captures.
C18_RecordShape ==
    \A n \in 1..Len(results) :
        LET r == results[n]
        IN /\ r.status \in {"success", "error"}
           /\ r.path # None <=> r.status = "success"
           /\ r.error # None <=> r.status = "error"
           /\ \E g \in 1..Len(commit_groups) : commit_groups[g].index = r.commit_index
           /\ Len(r.commit) = 8
           /\ \A j \in 1..8 : r.commit[j] = commit_groups[GroupOf(r)].commit_sha[j]
           /\ \E k \in 1..Len(commit_groups[GroupOf(r)].screenshots) :
                 commit_groups[GroupOf(r)].screenshots[k].name = r.name

\* a run that recorded a success for one group and an error for another
C18_Witness ==
    /\ pc = "exit"
    /\ \E n, m \in 1..Len(results) :
          /\ results[n].status = "success"
          /\ results[m].status = "error"
          /\ results[n].commit_index # results[m].commit_index
          /\ results[n].commit # results[m].commit

----------------------------------------------------------------------------
\* the positions in the steps of the call at position i of calls where one of
\* the given steps was made
StepsAt(i, which) == {j \in 1..Len(calls[i].steps) : calls[i].steps[j] \in which}

\* the record of results written for the call at position i of calls
RecordOf(i) ==
    CHOOSE n \in 1..Len(results) :
        /\ results[n].commit_index = commit_groups[calls[i].group].index
        /\ results[n].name = SpecAt(i).name

\* the steps of the engine that end the capture when they raise
FatalSteps == {"new_page:raised", "title:raised", "screenshot:raised"}

\* C19: in every capture where the navigation raised or the wait for the
\* selector timed out, the delay, the reading of the title and, unless that
\* reading raised, the screenshot follow in this order; a capture that raised
\* ended on another call than these two; and when no other call raised the
\* capture returned and its record is a success.
C19_NavigationFailureNotFatal ==
    \A i \in CallsTo("capture") :
        /\ \A j \in StepsAt(i, {"goto:raised", "wait_for_selector:raised"}) :
              \E a \in StepsAt(i, {"sleep"}) :
                 /\ a > j
                 /\ \E b \in StepsAt(i, {"title", "title:raised"}) :
                       /\ b > a
                       /\ calls[i].steps[b] = "title" =>
                             \E c \in StepsAt(i, {"screenshot", "screenshot:raised"}) : c > b
        /\ ~calls[i].ok => calls[i].steps[Len(calls[i].steps)] \in FatalSteps
        /\ StepsAt(i, FatalSteps) = {} =>
              (calls[i].ok /\ results[RecordOf(i)].status = "success")

\* a capture whose navigation raised and whose selector never appeared, and
\* which was recorded as a success
C19_Witness ==
    \E i \in CallsTo("capture") :
        /\ StepsAt(i, {"goto:raised"}) # {}
        /\ StepsAt(i, {"wait_for_selector:raised"}) # {}
        /\ StepsAt(i, {"screenshot"}) # {}
        /\ calls[i].ok
        /\ results[RecordOf(i)].status = "success"

\* C20: a capture that asks for the title bar and took its screenshot returns
\* the path the screenshot was written to and is recorded as a success also when Pillow is missing or
\* add_title_bar raised; add_title_bar is called only when Pillow is there;
\* and a capture that does not ask for the title bar never calls it.
C20_TitleBarFailureNotFatal ==
    \A i \in CallsTo("capture") :
        LET called == StepsAt(i, {"add_title_bar", "add_title_bar:raised"})
        IN /\ (SpecAt(i).show_title_bar /\ StepsAt(i, {"screenshot"}) # {}) =>
                 /\ calls[i].ok
                 /\ results[RecordOf(i)].status = "success"
                 /\ results[RecordOf(i)].path = WrittenPath(i)
                 /\ Cardinality(called) = (IF PIL_AVAILABLE THEN 1 ELSE 0)
           /\ ~SpecAt(i).show_title_bar => called = {}

\* a capture whose title bar raised, recorded as a success
C20_Witness ==
    \E i \in CallsTo("capture") :
        /\ SpecAt(i).show_title_bar
        /\ StepsAt(i, {"add_title_bar:raised"}) # {}
        /\ calls[i].ok
        /\ results[RecordOf(i)].status = "success"

----------------------------------------------------------------------------
\* C21: in every plan, the specs of one commit group have pairwise distinct
\* names, whatever the annotation lists.
C21_NamesDistinctInGroup ==
    Planned =>
        \A k \in 1..Len(commit_groups) :
            \A i, j \in 1..Len(commit_groups[k].screenshots) :
                i # j => commit_groups[k].screenshots[i].name
                            # commit_groups[k].screenshots[j].name

----------------------------------------------------------------------------
\* the prefixes made of exactly two decimal digits and an underscore
TwoDigitPrefixes == {ToString(a) \o ToString(b) \o "_" : a, b \in 0..9}

\* C22: the prefix of every commit group of the plan is two decimal digits and
\* an underscore, and so is the start of every line printed under --list and
\* of every recorded filename, whatever the number of groups.
C22_TwoDigitPrefix ==
    /\ \A k \in 1..Len(commit_groups) :
          CommitPrefix(commit_groups[k].index) \in TwoDigitPrefixes
    /\ \A n \in 1..Len(printed) :
          \E pre \in TwoDigitPrefixes, k \in 1..Len(commit_groups) :
             \E j \in 1..Len(commit_groups[k].screenshots) :
                printed[n] = pre \o commit_groups[k].screenshots[j].name \o ".png"
    /\ \A n \in 1..Len(results) :
          \E pre \in TwoDigitPrefixes :
             results[n].filename = pre \o results[n].name \o ".png"

----------------------------------------------------------------------------
\* the position in calls of the last call to op made before position c, or 0
LastBefore(op, c) ==
    IF \E i \in CallsTo(op) : i < c
    THEN CHOOSE i \in CallsTo(op) : i < c /\ \A m \in CallsTo(op) : m < c => m <= i
    ELSE 0

\* the calls that prepare a group for its captures
Preparations == {"checkout", "clear_cache", "restart"}

\* C23: when the engine is invoked for a spec, the last checkout made before
\* was one of the spec's own commit and it returned, and the last restart made
\* before came after that checkout, was for the same group and returned; after
\* a checkout, a cache clear or a restart that raised, a capture is made only
\* for a later group, after a checkout and a restart of it that returned; and
\* while the captures of a group run, the working tree is on its commit.
C23_CaptureOnFreshServer ==
    /\ \A c \in CallsTo("capture") :
          LET g == calls[c].group
              co == LastBefore("checkout", c)
              r == LastBefore("restart", c)
          IN /\ co > 0
             /\ calls[co].ok
             /\ calls[co].group = g
             /\ SpecAt(c).commit_sha = commit_groups[g].commit_sha
             /\ r > co
             /\ calls[r].ok
             /\ calls[r].group = g
             /\ \A f \in 1..(c - 1) :
                   (calls[f].op \in Preparations /\ ~calls[f].ok) =>
                       (calls[f].group < g /\ f < co)
    /\ pc = "capture" =>
          (head = cur_group.commit_sha /\ cur_group.screenshots[cur_take[si]].commit_sha = head)

\* the first group failed at its restart, the second was checked out and
\* restarted, and one of its captures was taken
C23_Witness ==
    \E f \in CallsTo("restart"), c \in CallsTo("capture") :
        /\ ~calls[f].ok
        /\ calls[f].group = 1
        /\ calls[c].group = 2
        /\ f < c

----------------------------------------------------------------------------
\* the name is kept by the inclusion name-set
Included(name) == only = {} \/ name \in only

\* the positions in the screenshots of group g of the specs called name
Named(g, name) ==
    {j \in 1..Len(commit_groups[g].screenshots) : commit_groups[g].screenshots[j].name = name}

\* C24: every capture attempted and every record is for a spec whose name is
\* in the inclusion name-set; a group keeps the index it has among all the
\* annotated commits, filtered or not, and its records carry the prefix of
\* that index; a group without any included name gets no checkout, no cache
\* clear, no restart, no capture and no record; and when run_from_git returns,
\* the records of each group are, name by name, as many as its included specs.
C24_OnlyFiltersWithoutRenumbering ==
    (Planned /\ ~list_flag) =>
        /\ \A c \in CallsTo("capture") : Included(SpecAt(c).name)
        /\ \A n \in 1..Len(results) :
              /\ Included(results[n].name)
              /\ results[n].filename
                    = TwoDigits(results[n].commit_index) \o results[n].name \o ".png"
        /\ Len(commit_groups) = Cardinality(Annotated)
        /\ \A g \in 1..Len(commit_groups) :
              /\ commit_groups[g].index = g
              /\ LET sha == history[KthOldest(g)].hexsha
                 IN /\ commit_groups[g].commit_sha = sha
                    /\ \A n \in 1..Len(results) :
                          results[n].commit_index = g =>
                              results[n].commit = SubSeq(sha, 1, 8)
              /\ (\A j \in 1..Len(commit_groups[g].screenshots) :
                     ~Included(commit_groups[g].screenshots[j].name)) =>
                    /\ \A i \in 1..Len(calls) : calls[i].group # g
                    /\ \A n \in 1..Len(results) : results[n].commit_index # g
              /\ pc = "report" =>
                    \A j \in 1..Len(commit_groups[g].screenshots) :
                        LET name == commit_groups[g].screenshots[j].name
                        IN Cardinality({n \in 1..Len(results) :
                                           /\ results[n].commit_index = g
                                           /\ results[n].name = name})
                              = (IF Included(name) THEN Cardinality(Named(g, name)) ELSE 0)

\* --only b: the first group, tagged a, was skipped, and the capture b of the
\* second group was written as 02_b.png
C24_Witness ==
    /\ only = {"b"}
    /\ pc = "report"
    /\ Len(commit_groups) = 2
    /\ \A i \in 1..Len(calls) : calls[i].group # 1
    /\ Len(results) = 1
    /\ results[1].status = "success"
    /\ results[1].filename = "02_b.png"

----------------------------------------------------------------------------
\* the details recorded when the cache clear or the restart raised
PreparationDetails == {"Checkout failed: rmtree failed",
                       "Checkout failed: server: stop_fails",
                       "Checkout failed: server: start_fails"}

\* C25: when a group was checked out and its cache clear or its restart then
\* raised, the engine is invoked for none of its captures, its records are
\* exactly one error per filtered capture, in list order, with the
\* checkout-failure detail and no path, and the loop goes on: every later group
\* with a filtered capture gets its checkout by the time run_from_git returns.
C25_PreparationFailureMarksGroup ==
    \A i \in CallsTo("clear_cache") \cup CallsTo("restart") :
        ~calls[i].ok =>
            LET g == calls[i].group
                want == WantedOf(g)
                rs == GroupResults(g)
            IN /\ \E co \in GroupCalls("checkout", g) : co < i /\ calls[co].ok
               /\ GroupCalls("capture", g) = {}
               /\ Len(rs) = Len(want)
               /\ \A n \in 1..Len(want) :
                     /\ rs[n].name = commit_groups[g].screenshots[want[n]].name
                     /\ rs[n].status = "error"
                     /\ rs[n].error \in PreparationDetails
                     /\ (calls[i].op = "clear_cache") =
                           (rs[n].error = "Checkout failed: rmtree failed")
                     /\ rs[n].path = None
               /\ gi > g
               /\ exc = None \/ pc \in {"teardown", "exit"}
               /\ pc = "report" =>
                     \A h \in (g + 1)..Len(commit_groups) :
                         WantedOf(h) # <<>> => GroupCalls("checkout", h) # {}

\* the restart of a group of two captures raised, both were recorded as
\* errors, and a capture of the next group was taken
C25_Witness ==
    \E i \in CallsTo("restart"), c \in CallsTo("capture") :
        /\ ~calls[i].ok
        /\ Len(GroupResults(calls[i].group)) = 2
        /\ c > i
        /\ calls[c].ok
        /\ calls[c].group > calls[i].group

====
